---- MODULE Spec2Model ----
(***************************************************************************)
(* The to-do list application of src/main.py, src/models.py, src/forms.py  *)
(* as a state machine.                                                     *)
(*                                                                         *)
(* The store is the SQLite database of main.py:17 with the two tables of   *)
(* models.py.  Each browser (client) carries its own Flask session cookie. *)
(* The server handles requests of different clients concurrently; a        *)
(* handler that reads the store and later commits is two steps, the read   *)
(* (with every check the handler makes on what it read) and the commit,    *)
(* and steps of other requests may come between the two.  A handler that   *)
(* touches the store once is one step.                                     *)
(***************************************************************************)
EXTENDS Integers, Sequences, FiniteSets, TLC

(***************************************************************************)
(* Bounds of the model.                                                    *)
(***************************************************************************)
NumClients == 2
NumEmails == 2
MaxTodos == 2
MaxUserId == 3
MaxTodoId == 4

(***************************************************************************)
(* Program constants.                                                      *)
(***************************************************************************)
MinPasswordLen == 6
MaxContentLen == 200

Clients == 1..NumClients

\* The value of a session that holds no user id.
Anonymous == 0

AddrBook == <<"a@x.com", "b@x.com", "c@x.com", "d@x.com">>
Addresses == {AddrBook[i] : i \in 1..NumEmails}
EmailInputs == Addresses \cup {"not-an-address"}

PasswordInputs == {"secret1", "short"}

Salts == {"s1"}

\* A text typed into a form field: the characters typed, followed by `pad`
\* more characters of filler.
Text(typed, pad) == [typed |-> typed, pad |-> pad]
Length(text) == Len(text.typed) + text.pad

\* Nothing, one space, a text of exactly MaxContentLen characters, and one
\* more.
ContentInputs ==
    {Text("", 0), Text(" ", 0), Text("buy milk", MaxContentLen - 8),
     Text("buy milk", MaxContentLen - 7)}

Methods == {"GET", "POST"}

(***************************************************************************)
(* URLs: an endpoint of the route table and, for /toggle/<id> and          *)
(* /delete/<id>, the id.  NoUrl is the absent `next` query argument.       *)
(***************************************************************************)
Url(endpoint, id) == [endpoint |-> endpoint, id |-> id]
NoUrl == Url("", 0)
url_for(endpoint) == Url(endpoint, 0)
TodoIds == 1..MaxTodos
GatedUrls == {url_for("index"), url_for("logout")}
               \cup {Url("toggle", i) : i \in TodoIds}
               \cup {Url("delete", i) : i \in TodoIds}
NextInputs == {NoUrl, url_for("index"), url_for("logout"), Url("toggle", 1)}

login_view == "login"
login_message == "Please log in to access this page."

VARIABLES
    users,      \* table users:  id -> [email, password]
    todos,      \* table todos:  id -> [content, completed, user_id]
    session,    \* per client: the user id in its session cookie, or Anonymous
    req,        \* per client: the request in flight between read and commit
    event,      \* the last step: whose request, the handler, and its response
    registered, \* history: per email, the number of "Registration successful"
    given,      \* history: per email, the password typed into the form of
                \* the successful registration
    ledger      \* history: what the owners' successful add/toggle/delete
                \* responses say the items are

vars == <<users, todos, session, req, event, registered, given, ledger>>

(***************************************************************************)
(* Tables.                                                                 *)
(***************************************************************************)
Max(S) == CHOOSE m \in S : \A x \in S : x <= m

\* models.py:17, models.py:48 with main.py:17: an Integer primary key of a
\* SQLite table is the rowid, and an insert that names no id gets one more
\* than the largest id in the table (1 in an empty table).
NextId(table) == IF DOMAIN table = {} THEN 1 ELSE Max(DOMAIN table) + 1

Insert(table, row) == table @@ (NextId(table) :> row)

\* A delete that takes the whole list of the owner with it.
RemoveAllOfOwner(table, id) ==
    IF id \in DOMAIN table
    THEN [i \in {j \in DOMAIN table : table[j].user_id # table[id].user_id}
            |-> table[i]]
    ELSE table

Remove(table, id) == [i \in DOMAIN table \ {id} |-> table[i]]

User(email, password) == [email |-> email, password |-> password]

Todo(content, user_id) ==
    [content |-> content, completed |-> FALSE, user_id |-> user_id]

\* User.query.filter_by(email=...): the ids of the rows found
ByEmail(email) == {u \in DOMAIN users : users[u].email = email}

\* A users table without the unique index on email.
NoUniqueIndex(email) == FALSE

\* models.py:21 unique=True: the unique index on users.email refuses the
\* insert of a second row with the same email
EmailTaken(email) == \E u \in DOMAIN users : users[u].email = email

(***************************************************************************)
(* Passwords (models.py:30-42).  The hash is the string the column holds:  *)
(* the method, a fresh salt and the digest of salt and password, joined by *)
(* "$".  The digest is one-way: it is written as a text no form field      *)
(* takes apart.                                                            *)
(***************************************************************************)
\* A registration that stores the password as typed.
StoredAsTyped(password, salt) == password

generate_password_hash(password, salt) ==
    "pbkdf2:sha256$" \o salt \o "$" \o "sha256(" \o salt \o password \o ")"

\* A verification that accepts every password.
AnyPassword(pwhash, password) == TRUE

\* The salt is read from the hash, and the hash made again from it and the
\* password offered.
check_password_hash(pwhash, password) ==
    \E salt \in Salts : pwhash = generate_password_hash(password, salt)

check_password(u, password) == check_password_hash(users[u].password, password)

(***************************************************************************)
(* Form validators (forms.py).                                             *)
(***************************************************************************)
\* The texts of white space only among those typed here, and str.strip()
\* on a text typed here.
Blank == {"", " "}
strip(s) == IF s \in Blank THEN "" ELSE s

\* wtforms DataRequired: the data, stripped of white space, is not empty
DataRequired(s) == Len(strip(s)) > 0
Email(s) == s \in Addresses

RegisterForm(email, password, password2) ==
    /\ DataRequired(email) /\ Email(email)
    /\ DataRequired(password) /\ Len(password) >= MinPasswordLen
    /\ DataRequired(password2) /\ password2 = password

LoginForm(email, password) ==
    /\ DataRequired(email) /\ Email(email)
    /\ DataRequired(password)

\* A form that takes "less than 200 characters" at its word.
LessThanMax(content) ==
    /\ DataRequired(content.typed) \/ content.pad > 0
    /\ Length(content) < MaxContentLen

\* forms.py:47-53: DataRequired(), Length(max=200); the filler is not white
\* space
TodoForm(content) ==
    /\ DataRequired(content.typed) \/ content.pad > 0
    /\ Length(content) <= MaxContentLen

validate_on_submit(method, valid) == method = "POST" /\ valid

(***************************************************************************)
(* Requests and responses.                                                 *)
(***************************************************************************)
NoHash == ""

\* The locals a handler keeps between its read and its commit.
Idle == [pc |-> "idle", user |-> Anonymous, email |-> "", plain |-> "",
         password |-> NoHash, id |-> 0, content |-> Text("", 0),
         completed |-> FALSE]

NoView == <<>>

\* A response: status code, the redirect location (302) or the endpoint whose
\* template is rendered (200), the `next` query argument of the location,
\* the flashed message, and the todos rendered.
Response(code, to, next, flash, view) ==
    [code |-> code, to |-> to, next |-> next, flash |-> flash, view |-> view]

redirect(to) == Response(302, to, NoUrl, "", NoView)
render_template(endpoint, view) == Response(200, url_for(endpoint), NoUrl, "", view)
flash(message, resp) == [resp EXCEPT !.flash = message]
InternalServerError == Response(500, NoUrl, NoUrl, "", NoView)

\* The step just taken: client, handler, the outcome in the words of the
\* error taxonomy, and the response (NoResponse while the request waits for
\* its commit).
NoResponse == Response(0, NoUrl, NoUrl, "", NoView)
Event(c, op, outcome, resp) ==
    [client |-> c, op |-> op, outcome |-> outcome, resp |-> resp]

\* A loader that takes the cookie at its word.
TrustSession(user_id) == user_id

\* main.py:34-47: the user the session names, if the row exists
load_user(user_id) == IF user_id \in DOMAIN users THEN user_id ELSE Anonymous

current_user(c) == load_user(session[c])

\* A gate that lets every request through.
AlwaysAuthenticated(c) == TRUE

\* @login_required: current_user.is_authenticated
is_authenticated(c) == current_user(c) # Anonymous

\* login_user(user, remember=...) and logout_user() on the session cookie.
\* The remember cookie decides only whether the login outlasts a restart of
\* the browser; no browser restarts here, and the flag is left out.
login_user(user_id) == user_id
logout_user == Anonymous

\* main.py:27-31 and @login_required: an Anonymous request is answered with
\* a redirect to login_view that carries the requested URL as `next`.
\* A gate that forgets the URL that was asked for.
UnauthorizedWithoutNext(url) == flash(login_message, redirect(url_for(login_view)))

unauthorized(url) ==
    flash(login_message, [redirect(url_for(login_view)) EXCEPT !.next = url])

\* The handler of client c returns resp: the request is over.
Reply(c, op, outcome, resp) ==
    /\ event' = Event(c, op, outcome, resp)
    /\ req' = [req EXCEPT ![c] = Idle]

\* The handler of client c has read the store and goes on to its commit.
Pending(c, op, locals) ==
    /\ event' = Event(c, op, "pending", NoResponse)
    /\ req' = [req EXCEPT ![c] = locals]

\* The commit of client c's request returns resp.
Commit(c, op, outcome, resp) ==
    /\ event' = Event(c, op, outcome, resp)
    /\ req' = [req EXCEPT ![c] = Idle]

Init ==
    /\ users = <<>>
    /\ todos = <<>>
    /\ session = [c \in Clients |-> logout_user]
    /\ req = [c \in Clients |-> Idle]
    /\ event = Event(0, "", "", NoResponse)
    /\ registered = [e \in Addresses |-> 0]
    /\ given = [e \in Addresses |-> ""]
    /\ ledger = <<>>

(***************************************************************************)
(* /register  (main.py:50-96)                                              *)
(***************************************************************************)
\* A register handler that skips the look-up of the email.
NoExistingUser(email) == {}

\* main.py:70
existing_user(email) == ByEmail(email)

register(c, method, email, password, password2) ==
    /\ req[c].pc = "idle"
    /\ IF ~validate_on_submit(method, RegisterForm(email, password, password2))
       THEN Reply(c, "register",
                  IF method = "GET" THEN "success" ELSE "ValidationError",
                  render_template("register", NoView))
       ELSE IF existing_user(email) # {}
       THEN Reply(c, "register", "DuplicateEmail",
                  flash("Email already registered", redirect(url_for("register"))))
       ELSE \E salt \in Salts :
              Pending(c, "register",
                      [Idle EXCEPT !.pc = "register_commit",
                                   !.user = current_user(c),
                                   !.email = email,
                                   !.plain = password,
                                   !.password = generate_password_hash(password, salt)])
    /\ UNCHANGED <<users, todos, session, registered, given>>

\* A registration that logs the new user in.
RegisterAndLogin(c) ==
    /\ req[c].pc = "register_commit"
    /\ IF EmailTaken(req[c].email)
       THEN /\ Commit(c, "register", "Fault", InternalServerError)
            /\ UNCHANGED <<users, registered, given, session>>
       ELSE /\ users' = Insert(users, User(req[c].email, req[c].password))
            /\ registered' = [registered EXCEPT ![req[c].email] = @ + 1]
            /\ given' = [given EXCEPT ![req[c].email] = req[c].plain]
            /\ session' = [session EXCEPT ![c] = login_user(NextId(users))]
            /\ Commit(c, "register", "success",
                      flash("Registration successful! Please log in.",
                            redirect(url_for("login"))))
    /\ UNCHANGED todos

\* main.py:86-92: the INSERT; the unique index on users.email (models.py:21)
\* rejects it with an IntegrityError, which no handler catches.
register_commit(c) ==
    /\ req[c].pc = "register_commit"
    /\ IF EmailTaken(req[c].email)
       THEN /\ Commit(c, "register", "Fault", InternalServerError)
            /\ UNCHANGED <<users, registered, given>>
       ELSE /\ users' = Insert(users, User(req[c].email, req[c].password))
            /\ registered' = [registered EXCEPT ![req[c].email] = @ + 1]
            /\ given' = [given EXCEPT ![req[c].email] = req[c].plain]
            /\ Commit(c, "register", "success",
                      flash("Registration successful! Please log in.",
                            redirect(url_for("login"))))
    /\ UNCHANGED <<todos, session>>

(***************************************************************************)
(* /login  (main.py:99-123)                                                *)
(***************************************************************************)
Min(S) == CHOOSE m \in S : \A x \in S : m <= x

\* main.py:104, 108: the user the credentials name, or Anonymous
authenticate(email, password) ==
    IF ByEmail(email) # {} /\ check_password(Min(ByEmail(email)), password)
    THEN Min(ByEmail(email))
    ELSE Anonymous

\* A login that ignores the `next` argument.
AlwaysToIndex(next) == redirect(url_for("index"))

\* main.py:118-119
login_redirect(next) ==
    IF next # NoUrl THEN redirect(next) ELSE redirect(url_for("index"))

\* A login that tells the two causes of failure apart.
LeakyLoginResponse(email, password, next) ==
    IF authenticate(email, password) # Anonymous
    THEN login_redirect(next)
    ELSE IF ByEmail(email) = {}
    THEN flash("No account with this email", render_template("login", NoView))
    ELSE flash("Wrong password", render_template("login", NoView))

\* main.py:108-123: the response to a submitted form
login_response(email, password, next) ==
    IF authenticate(email, password) # Anonymous
    THEN login_redirect(next)
    ELSE flash("Invalid email or password", render_template("login", NoView))

\* A login that leaves a session alone that already names a user.
KeepFirstLogin(c, email, password) ==
    IF authenticate(email, password) # Anonymous /\ session[c] = Anonymous
    THEN [session EXCEPT ![c] = login_user(authenticate(email, password))]
    ELSE session

\* main.py:113: the session cookie the response leaves with the client
login_session(c, email, password) ==
    IF authenticate(email, password) # Anonymous
    THEN [session EXCEPT ![c] = login_user(authenticate(email, password))]
    ELSE session

login(c, method, email, password, next) ==
    /\ req[c].pc = "idle"
    /\ IF ~validate_on_submit(method, LoginForm(email, password))
       THEN /\ Reply(c, "login",
                     IF method = "GET" THEN "success" ELSE "ValidationError",
                     render_template("login", NoView))
            /\ UNCHANGED session
       ELSE /\ session' = login_session(c, email, password)
            /\ Reply(c, "login",
                     IF authenticate(email, password) # Anonymous
                     THEN "success" ELSE "AuthenticationFailed",
                     login_response(email, password, next))
    /\ UNCHANGED <<users, todos, registered, given>>

(***************************************************************************)
(* /logout  (main.py:126-136)                                              *)
(***************************************************************************)
logout(c) ==
    /\ req[c].pc = "idle"
    /\ IF ~is_authenticated(c)
       THEN /\ Reply(c, "logout", "LoginRequired", unauthorized(url_for("logout")))
            /\ UNCHANGED session
       ELSE /\ session' = [session EXCEPT ![c] = logout_user]
            /\ Reply(c, "logout", "success",
                     flash("You have been logged out", redirect(url_for("login"))))
    /\ UNCHANGED <<users, todos, registered, given>>

(***************************************************************************)
(* /  (main.py:139-180): the list, and on a valid POST the new todo        *)
(***************************************************************************)
\* A list that leaves the filter out.
AllTodos(table, user_id) == table

\* main.py:176: Todo.query.filter_by(user_id=current_user.id).all()
ListForOwner(table, user_id) ==
    [i \in {j \in DOMAIN table : table[j].user_id = user_id} |-> table[i]]

\* The rows in the table and the inserts under way stay within MaxTodos.
RoomForTodo ==
    Cardinality(DOMAIN todos)
        + Cardinality({d \in Clients : req[d].pc = "index_commit"}) < MaxTodos

index(c, method, content) ==
    /\ req[c].pc = "idle"
    /\ IF ~is_authenticated(c)
       THEN Reply(c, "index", "LoginRequired", unauthorized(url_for("index")))
       ELSE IF validate_on_submit(method, TodoForm(content))
       THEN /\ RoomForTodo
            /\ Pending(c, "index",
                       [Idle EXCEPT !.pc = "index_commit",
                                    !.user = current_user(c),
                                    !.content = content])
       ELSE Reply(c, "index",
                  IF method = "GET" THEN "success" ELSE "ValidationError",
                  render_template("index", ListForOwner(todos, current_user(c))))
    /\ UNCHANGED <<users, todos, session, registered, given>>

\* main.py:161-171: the INSERT of the new row
index_commit(c) ==
    /\ req[c].pc = "index_commit"
    /\ todos' = Insert(todos, Todo(req[c].content, req[c].user))
    /\ Commit(c, "index", "success", redirect(url_for("index")))
    /\ UNCHANGED <<users, session, registered, given>>

(***************************************************************************)
(* /toggle/<id>  (main.py:183-214)                                         *)
(***************************************************************************)
\* main.py:204, 226: the security check
Owns(user_id, todo_id) == todos[todo_id].user_id = user_id

\* A toggle that marks the todo completed whatever it was.
MarkCompleted(completed) == TRUE

\* main.py:209
Flip(completed) == ~completed

toggle(c, todo_id) ==
    /\ req[c].pc = "idle"
    /\ IF ~is_authenticated(c)
       THEN Reply(c, "toggle", "LoginRequired", unauthorized(Url("toggle", todo_id)))
       ELSE IF todo_id \notin DOMAIN todos
       THEN Reply(c, "toggle", "NotFound",
                  flash("Todo not found", redirect(url_for("index"))))
       ELSE IF ~Owns(current_user(c), todo_id)
       THEN Reply(c, "toggle", "Unauthorized",
                  flash("Unauthorized", redirect(url_for("index"))))
       ELSE Pending(c, "toggle",
                    [Idle EXCEPT !.pc = "toggle_commit",
                                 !.user = current_user(c),
                                 !.id = todo_id,
                                 !.completed = todos[todo_id].completed])
    /\ UNCHANGED <<users, todos, session, registered, given>>

\* main.py:209-214: UPDATE todos SET completed = ... WHERE id = ...; when the
\* row is gone the UPDATE matches nothing and the ORM raises StaleDataError,
\* which no handler catches.
toggle_commit(c) ==
    /\ req[c].pc = "toggle_commit"
    /\ IF req[c].id \notin DOMAIN todos
       THEN /\ Commit(c, "toggle", "Fault", InternalServerError)
            /\ UNCHANGED todos
       ELSE /\ todos' = [todos EXCEPT ![req[c].id].completed = Flip(req[c].completed)]
            /\ Commit(c, "toggle", "success", redirect(url_for("index")))
    /\ UNCHANGED <<users, session, registered, given>>

(***************************************************************************)
(* /delete/<id>  (main.py:217-235)                                         *)
(***************************************************************************)
\* A delete that compares the owner before it looks whether there is a row:
\* the comparison on no row is an AttributeError.
OwnerComparedFirst(c, todo_id) ==
    /\ req[c].pc = "idle"
    /\ IF ~is_authenticated(c)
       THEN Reply(c, "delete", "LoginRequired", unauthorized(Url("delete", todo_id)))
       ELSE IF todo_id \notin DOMAIN todos
       THEN Reply(c, "delete", "Fault", InternalServerError)
       ELSE IF ~Owns(current_user(c), todo_id)
       THEN Reply(c, "delete", "Unauthorized",
                  flash("Unauthorized", redirect(url_for("index"))))
       ELSE Pending(c, "delete",
                    [Idle EXCEPT !.pc = "delete_commit",
                                 !.user = current_user(c),
                                 !.id = todo_id])
    /\ UNCHANGED <<users, todos, session, registered, given>>

delete(c, todo_id) ==
    /\ req[c].pc = "idle"
    /\ IF ~is_authenticated(c)
       THEN Reply(c, "delete", "LoginRequired", unauthorized(Url("delete", todo_id)))
       ELSE IF todo_id \notin DOMAIN todos
       THEN Reply(c, "delete", "NotFound",
                  flash("Todo not found", redirect(url_for("index"))))
       ELSE IF ~Owns(current_user(c), todo_id)
       THEN Reply(c, "delete", "Unauthorized",
                  flash("Unauthorized", redirect(url_for("index"))))
       ELSE Pending(c, "delete",
                    [Idle EXCEPT !.pc = "delete_commit",
                                 !.user = current_user(c),
                                 !.id = todo_id])
    /\ UNCHANGED <<users, todos, session, registered, given>>

\* main.py:231-235: DELETE FROM todos WHERE id = ...; when the row is gone the
\* DELETE matches nothing, which the ORM reports as a warning only.
delete_commit(c) ==
    /\ req[c].pc = "delete_commit"
    /\ todos' = Remove(todos, req[c].id)
    /\ Commit(c, "delete", "success",
              flash("Todo deleted", redirect(url_for("index"))))
    /\ UNCHANGED <<users, session, registered, given>>

(***************************************************************************)
(* The server: requests of different clients interleave step by step.      *)
(***************************************************************************)
\* The requests a browser sends: a GET carries no form, a POST carries one.
RegisterRequests ==
    {<<"GET", "", "", "">>}
        \cup {<<"POST", e, p, p>> : e \in EmailInputs, p \in PasswordInputs}
        \cup {<<"POST", e, "secret1", "secret2">> : e \in Addresses}

LoginRequests ==
    {<<"GET", "", "">>}
        \cup {<<"POST", e, p>> : e \in EmailInputs, p \in PasswordInputs}

IndexRequests == {<<"GET", Text("", 0)>>} \cup {<<"POST", t>> : t \in ContentInputs}

Next ==
    \E c \in Clients :
        \/ \E r \in RegisterRequests :
               register(c, r[1], r[2], r[3], r[4]) /\ UNCHANGED ledger
        \/ register_commit(c) /\ UNCHANGED ledger
        \/ \E r \in LoginRequests, n \in NextInputs :
               login(c, r[1], r[2], r[3], n) /\ UNCHANGED ledger
        \/ logout(c) /\ UNCHANGED ledger
        \/ \E r \in IndexRequests : index(c, r[1], r[2]) /\ UNCHANGED ledger
        \/ index_commit(c) /\ UNCHANGED ledger
        \/ \E i \in TodoIds : toggle(c, i) /\ UNCHANGED ledger
        \/ toggle_commit(c) /\ UNCHANGED ledger
        \/ \E i \in TodoIds : delete(c, i) /\ UNCHANGED ledger
        \/ delete_commit(c) /\ UNCHANGED ledger

Spec == Init /\ [][Next]_vars

(***************************************************************************)
(* The server with one request at a time: a request begins only when no    *)
(* other is in flight (spec section 5, "handled ... to completion before   *)
(* the next is considered").  Here the ledger is kept: it holds what the   *)
(* successful responses to the users' add, toggle and delete requests say  *)
(* the items are: an added item is there and not completed, a toggled item *)
(* has changed sides, a deleted item is gone.                              *)
(***************************************************************************)
Serial == \A c \in Clients : req[c].pc = "idle"

Mine(user_id, todo_id) ==
    todo_id \in DOMAIN ledger /\ ledger[todo_id].user_id = user_id

Ledger(c) ==
    IF event'.outcome # "success" THEN ledger
    ELSE IF req[c].pc = "index_commit"
    THEN ((CHOOSE i \in DOMAIN todos' : i \notin DOMAIN todos) :>
              [content |-> req[c].content, completed |-> FALSE,
               user_id |-> req[c].user]) @@ ledger
    ELSE IF req[c].pc = "toggle_commit" /\ Mine(req[c].user, req[c].id)
    THEN [ledger EXCEPT ![req[c].id].completed = ~@]
    ELSE IF req[c].pc = "delete_commit" /\ Mine(req[c].user, req[c].id)
    THEN [i \in DOMAIN ledger \ {req[c].id} |-> ledger[i]]
    ELSE ledger

NextSeq ==
    \E c \in Clients :
        \/ \E r \in RegisterRequests :
               Serial /\ register(c, r[1], r[2], r[3], r[4]) /\ UNCHANGED ledger
        \/ register_commit(c) /\ ledger' = Ledger(c)
        \/ \E r \in LoginRequests, n \in NextInputs :
               Serial /\ login(c, r[1], r[2], r[3], n) /\ UNCHANGED ledger
        \/ Serial /\ logout(c) /\ UNCHANGED ledger
        \/ \E r \in IndexRequests :
               Serial /\ index(c, r[1], r[2]) /\ UNCHANGED ledger
        \/ index_commit(c) /\ ledger' = Ledger(c)
        \/ \E i \in TodoIds : Serial /\ toggle(c, i) /\ UNCHANGED ledger
        \/ toggle_commit(c) /\ ledger' = Ledger(c)
        \/ \E i \in TodoIds : Serial /\ delete(c, i) /\ UNCHANGED ledger
        \/ delete_commit(c) /\ ledger' = Ledger(c)

SpecSeq == Init /\ [][NextSeq]_vars

(***************************************************************************)
(* The removal of a user.  No handler of main.py removes a user; the data  *)
(* model says what a removal is (spec section 3, "deleted only as a        *)
(* cascade root"; models.py:28, 58): the user row goes and the todos of    *)
(* the user go with it, in one transaction.  The session cookies stay with *)
(* the browsers.  The removal may come at any moment, also between the     *)
(* read and the commit of a request; the requests themselves are served    *)
(* one at a time, and the forms of register and login are filled in        *)
(* without mistakes.  The histories forget the user; the ledger is not     *)
(* kept.  The ids of both tables grow as users go and come: the            *)
(* registrations stop at MaxUserId and the additions at MaxTodoId.         *)
(*                                                                         *)
(* main.py:17 opens the SQLite file with its defaults, and by default      *)
(* SQLite does not check foreign keys: the INSERT of index_commit is       *)
(* accepted whether or not users holds the row user_id names.              *)
(***************************************************************************)
delete_user(u) ==
    /\ u \in DOMAIN users
    /\ users' = [i \in DOMAIN users \ {u} |-> users[i]]
    /\ todos' = [i \in {j \in DOMAIN todos : todos[j].user_id # u} |-> todos[i]]
    /\ event' = Event(0, "delete_user", "success", NoResponse)
    /\ registered' = [registered EXCEPT ![users[u].email] = 0]
    /\ given' = [given EXCEPT ![users[u].email] = ""]
    /\ UNCHANGED <<session, req>>

NextAdmin ==
    \/ \E c \in Clients :
        \/ \E e \in Addresses :
               /\ Serial /\ NextId(users) <= MaxUserId
               /\ register(c, "POST", e, "secret1", "secret1")
               /\ UNCHANGED ledger
        \/ register_commit(c) /\ UNCHANGED ledger
        \/ \E e \in Addresses :
               /\ Serial /\ login(c, "POST", e, "secret1", NoUrl)
               /\ UNCHANGED ledger
        \/ Serial /\ logout(c) /\ UNCHANGED ledger
        \/ \E r \in IndexRequests :
               /\ Serial /\ (r[1] = "POST" => NextId(todos) <= MaxTodoId)
               /\ index(c, r[1], r[2])
               /\ UNCHANGED ledger
        \/ index_commit(c) /\ UNCHANGED ledger
        \/ \E i \in TodoIds : Serial /\ toggle(c, i) /\ UNCHANGED ledger
        \/ toggle_commit(c) /\ UNCHANGED ledger
        \/ \E i \in TodoIds : Serial /\ delete(c, i) /\ UNCHANGED ledger
        \/ delete_commit(c) /\ UNCHANGED ledger
    \/ \E u \in DOMAIN users : delete_user(u) /\ UNCHANGED ledger

SpecAdmin == Init /\ [][NextAdmin]_vars

(***************************************************************************)
(* Properties.                                                             *)
(***************************************************************************)
RowsWithEmail(table, e) == {u \in DOMAIN table : table[u].email = e}

Authenticated(c) == session[c] \in DOMAIN users

\* C1: a toggle or delete of todo T by an authenticated user other than T's
\* owner ends Unauthorized and leaves T as it is, and whenever a step changes
\* or removes a todo T, the step is the commit of a toggle or delete request
\* whose session user is T's owner.
C1_OnlyOwnerChanges ==
    [][\A t \in DOMAIN todos :
         /\ \A c \in Clients :
              (/\ toggle(c, t) \/ delete(c, t)
               /\ Authenticated(c)
               /\ session[c] # todos[t].user_id)
              => /\ event'.outcome = "Unauthorized"
                 /\ t \in DOMAIN todos'
                 /\ todos'[t] = todos[t]
         /\ (t \notin DOMAIN todos' \/ todos'[t] # todos[t])
              => \E c \in Clients :
                   /\ toggle_commit(c) \/ delete_commit(c)
                   /\ req[c].user = todos[t].user_id]_vars

\* C2: whatever the interleaving of the checks and commits of register
\* requests, no email has two user rows and no email has had two
\* "Registration successful" responses.
C2_AtMostOneRegistration ==
    \A e \in Addresses :
        /\ Cardinality(RowsWithEmail(users, e)) <= 1
        /\ registered[e] <= 1

\* Two register requests for one email have raced: the second commit was
\* refused after the first one's success.
C2_Witness ==
    /\ event.op = "register"
    /\ event.outcome = "Fault"
    /\ \E e \in Addresses : registered[e] = 1

\* C3: a register request with a valid form whose email belongs to a stored
\* user is answered "Email already registered" (DuplicateEmail), and the
\* users table is as before, with exactly one row for that email.
C3_DuplicateEmail ==
    [][event'.op = "register" =>
       \A r \in RegisterRequests :
         (/\ r[1] = "POST"
          /\ RegisterForm(r[2], r[3], r[4])
          /\ RowsWithEmail(users, r[2]) # {}
          /\ register(event'.client, r[1], r[2], r[3], r[4]))
         => /\ event'.outcome = "DuplicateEmail"
            /\ event'.resp.flash = "Email already registered"
            /\ event'.resp.code = 302
            /\ users' = users
            /\ Cardinality(RowsWithEmail(users', r[2])) = 1]_vars

C3_Witness ==
    /\ event.op = "register"
    /\ event.outcome = "DuplicateEmail"
    /\ Cardinality(DOMAIN users) = 1

\* C4: every request ends with one of the explicit outcomes, never with an
\* unhandled fault (a 500 response).
ExplicitOutcomes ==
    {"success", "DuplicateEmail", "ValidationError", "NotFound", "Unauthorized",
     "AuthenticationFailed"}

C4_NoUnhandledFault ==
    /\ event.resp.code # 500
    /\ event.outcome \in ExplicitOutcomes \cup {"LoginRequired", "pending", ""}

\* The password a user registered with.
PlainOf(u) == given[users[u].email]

WrongCredentials(email, password) ==
    \A u \in RowsWithEmail(users, email) : PlainOf(u) # password

\* C5: in every store state, a login with an email of no user and a login
\* with a user's email and a wrong password get the same response, with the
\* same "Invalid email or password" message, and leave the same sessions.
C5_SameFailure ==
    \A c \in Clients, e1 \in Addresses, e2 \in Addresses,
       p \in PasswordInputs, n \in NextInputs :
        (/\ RowsWithEmail(users, e1) = {}
         /\ RowsWithEmail(users, e2) # {}
         /\ WrongCredentials(e2, p)
         /\ LoginForm(e1, p) /\ LoginForm(e2, p))
        => /\ login_response(e1, p, n) = login_response(e2, p, n)
           /\ login_response(e1, p, n).flash = "Invalid email or password"
           /\ login_response(e1, p, n).code = 200
           /\ login_session(c, e1, p) = login_session(c, e2, p)
           /\ login_session(c, e1, p) = session

\* A login has just failed in a store where both causes of failure exist.
C5_Witness ==
    /\ event.op = "login"
    /\ event.outcome = "AuthenticationFailed"
    /\ \E e1 \in Addresses : RowsWithEmail(users, e1) = {}
    /\ \E e2 \in Addresses : RowsWithEmail(users, e2) # {}

GatedOps == {"logout", "index", "toggle", "delete"}

\* Client c's request arrives in this step and is for a gated handler.
GatedRequest(c) ==
    /\ event'.client = c
    /\ event'.op \in GatedOps
    /\ req[c].pc = "idle"

\* C6: a request to logout, index, toggle or delete that arrives while the
\* session is Anonymous is answered with a redirect to login and changes
\* neither table nor any session, and no commit is left to do.
C6_LoginGate ==
    [][\A c \in Clients :
         (GatedRequest(c) /\ ~Authenticated(c))
         => /\ event'.outcome = "LoginRequired"
            /\ event'.resp.code = 302
            /\ event'.resp.to = url_for("login")
            /\ UNCHANGED <<users, todos, session>>
            /\ req'[c].pc = "idle"]_vars

C6_Witness ==
    /\ event.op = "delete"
    /\ event.outcome = "LoginRequired"
    /\ todos # <<>>

\* The URL a request of client c asks for in this step, if it is gated.
Requested(c, url) ==
    \/ url = url_for("index") /\ \E r \in IndexRequests : index(c, r[1], r[2])
    \/ url = url_for("logout") /\ logout(c)
    \/ url.endpoint = "toggle" /\ toggle(c, url.id)
    \/ url.endpoint = "delete" /\ delete(c, url.id)

\* The gate's half of C7: the redirect of an Anonymous request for a gated
\* URL R carries R as `next`, and a gated request of a session that names a
\* user is not sent to login.
C7_Gate ==
    \A c \in Clients :
        /\ (GatedRequest(c) /\ ~Authenticated(c)) =>
           \A url \in GatedUrls :
             Requested(c, url)
             => /\ event'.resp.to = url_for("login")
                /\ event'.resp.next = url
        /\ (GatedRequest(c) /\ Authenticated(c))
             => event'.outcome # "LoginRequired"

\* The login's half of C7: with the credentials of a user, a login carrying
\* `next` = R redirects to R, one without `next` redirects to the todo list,
\* and either leaves the session with the user of the email given.
C7_Login ==
    \A c \in Clients, e \in Addresses, p \in PasswordInputs, n \in NextInputs :
        (\E u \in RowsWithEmail(users, e) : PlainOf(u) = p)
        => /\ login_response(e, p, n).code = 302
           /\ login_response(e, p, n).to = IF n = NoUrl THEN url_for("index") ELSE n
           /\ login_response(e, p, n).next = NoUrl
           /\ login_session(c, e, p)[c] \in RowsWithEmail(users, e)

\* C7: an Anonymous request for a gated URL R is redirected to login with R
\* as the return hint, the successful login made with that hint redirects to
\* R (to the todo list when there is no hint) with the session Authenticated
\* as the user who logged in, and R is then served, not gated.
C7_ResumeAfterLogin == []C7_Login /\ [][C7_Gate]_vars

\* A login has just redirected to the URL handed to it as `next`.
C7_Witness ==
    /\ event.op = "login"
    /\ event.resp.code = 302
    /\ event.resp.to = Url("toggle", 1)
    /\ session[event.client] \in DOMAIN users

\* The response of a logout made while Authenticated (main.py:134-136).
LoggedOut ==
    [code |-> 302, to |-> url_for("login"), next |-> NoUrl,
     flash |-> "You have been logged out", view |-> NoView]

\* C8 as claimed: a logout while Anonymous leaves the session Anonymous and
\* the store as it is, and is answered as a logout while Authenticated is.
C8_SameAsAuthenticated ==
    [][\A c \in Clients :
         (event'.client = c /\ event'.op = "logout" /\ ~Authenticated(c))
         => /\ ~Authenticated(c)'
            /\ UNCHANGED <<users, todos>>
            /\ event'.outcome = "success"
            /\ event'.resp = LoggedOut]_vars

\* C8 as amended: a logout while Anonymous leaves every session and the
\* store as they are and is no fault; it is answered by the login gate, a
\* redirect to login that carries /logout as `next` and the notice
\* "Please log in to access this page."; a logout while Authenticated makes
\* the session Anonymous and is answered "You have been logged out".
C8_AnonymousLogout ==
    [][\A c \in Clients :
         /\ (event'.client = c /\ event'.op = "logout" /\ ~Authenticated(c))
            => /\ UNCHANGED <<users, todos, session>>
               /\ event'.outcome = "LoginRequired"
               /\ event'.resp.code = 302
               /\ event'.resp.to = url_for("login")
               /\ event'.resp.next = url_for("logout")
               /\ event'.resp.flash = "Please log in to access this page."
         /\ (event'.client = c /\ event'.op = "logout" /\ Authenticated(c))
            => /\ UNCHANGED <<users, todos>>
               /\ session'[c] = Anonymous
               /\ event'.outcome = "success"
               /\ event'.resp = LoggedOut]_vars

C8_Witness ==
    /\ event.op = "logout"
    /\ event.outcome = "LoginRequired"
    /\ users # <<>>

\* C9: a login whose email belongs to no user, or whose password is not the
\* user's, leaves every session exactly as it was, and no login changes
\* either table.
C9_SessionKept ==
    \A c \in Clients, e \in EmailInputs, p \in PasswordInputs :
        WrongCredentials(e, p) => login_session(c, e, p) = session

C9_FailedLoginKeepsSession ==
    /\ []C9_SessionKept
    /\ [][event'.op = "login" =>
            /\ UNCHANGED <<users, todos>>
            /\ \A d \in Clients \ {event'.client} : session'[d] = session[d]
            /\ event'.outcome # "success" => session' = session]_vars

\* A login has just failed in a session that names a user.
C9_Witness ==
    /\ event.op = "login"
    /\ event.outcome = "AuthenticationFailed"
    /\ session[event.client] \in DOMAIN users

C11_OnlyOwnTodos ==
    (event.op = "index" /\ event.resp.code = 200)
    => \A i \in DOMAIN event.resp.view :
         /\ event.resp.view[i].user_id = session[event.client]
         /\ i \in DOMAIN todos
         /\ todos[i] = event.resp.view[i]

\* A list with an item has just been rendered while the store holds a todo
\* of another user.
C11_Witness ==
    /\ event.op = "index"
    /\ event.resp.code = 200
    /\ event.resp.view # <<>>
    /\ \E t \in DOMAIN todos : todos[t].user_id # session[event.client]

\* The commit of an add inserts exactly one row, with the content of the
\* form, the session user as owner and completed = FALSE, and leaves every
\* other row and the users as they are.
AddInsertsOne ==
    \A c \in Clients :
        index_commit(c)
        => /\ \E i \in DOMAIN todos' \ DOMAIN todos :
                /\ DOMAIN todos' = DOMAIN todos \cup {i}
                /\ todos'[i] = [content |-> req[c].content, completed |-> FALSE,
                                user_id |-> session[c]]
           /\ \A j \in DOMAIN todos : todos'[j] = todos[j]
           /\ users' = users
           /\ Length(req[c].content) \in 1..MaxContentLen

\* The add request is refused: ValidationError, nothing stored, nothing left
\* to commit.
AddRefused(c) ==
    /\ event'.outcome = "ValidationError"
    /\ UNCHANGED <<users, todos>>
    /\ req'[c].pc = "idle"

\* The add request is accepted: its insert is the next thing it does.
AddAccepted(c, content) ==
    /\ req'[c].pc = "index_commit"
    /\ req'[c].content = content
    /\ req'[c].user = session[c]
    /\ UNCHANGED <<users, todos>>

WhiteSpaceOnly(content) == content.pad = 0 /\ content.typed \in {"", " "}

C13_NoOrphans == \A t \in DOMAIN todos : todos[t].user_id \in DOMAIN users

\* The session of client c names a user whose row is gone.
Stale(c) == session[c] # Anonymous /\ session[c] \notin DOMAIN users

C15_PasswordDecidesLogin ==
    /\ [](\A u \in DOMAIN users :
            /\ users[u].password # given[users[u].email]
            /\ users[u].password \notin PasswordInputs
            /\ \A p \in PasswordInputs, c \in Clients, n \in NextInputs :
                 /\ (authenticate(users[u].email, p) = u)
                        <=> (p = given[users[u].email])
                 /\ (login_response(users[u].email, p, n).code = 302)
                        <=> (p = given[users[u].email])
                 /\ login_session(c, users[u].email, p)[c] =
                        IF p = given[users[u].email] THEN u ELSE session[c])
    /\ [][event'.op = "login" =>
            IF event'.resp.code = 302
            THEN /\ event'.outcome = "success"
                 /\ session'[event'.client] \in DOMAIN users
                 /\ given[users[session'[event'.client]].email]
                        \in PasswordInputs
            ELSE session' = session]_vars

\* A user has just logged in, in a store with two users and a todo.
C15_Witness ==
    /\ event.op = "login"
    /\ event.outcome = "success"
    /\ Cardinality(DOMAIN users) = 2
    /\ todos # <<>>
    /\ given[users[session[event.client]].email] = "secret1"

\* C16: a toggle or delete of an authenticated user for an id the store does
\* not hold ends NotFound ("Todo not found") and changes nothing, and a
\* toggle or delete ends Unauthorized only for a row the store holds: the
\* look-up comes before the comparison of the owner.
C16_NotFoundFirst ==
    [][event'.op \in {"toggle", "delete"} =>
       \A c \in Clients, i \in TodoIds :
         (Authenticated(c) /\ (toggle(c, i) \/ delete(c, i)))
         => /\ i \notin DOMAIN todos
                => /\ event'.outcome = "NotFound"
                   /\ event'.resp =
                        flash("Todo not found", redirect(url_for("index")))
                   /\ UNCHANGED <<users, todos, session>>
                   /\ req'[c].pc = "idle"
            /\ event'.outcome = "Unauthorized"
                => /\ i \in DOMAIN todos
                   /\ todos[i].user_id # session[c]
            /\ event'.outcome # "Fault"]_vars

\* A delete has just ended NotFound for a todo deleted before, in a store
\* that still holds a later todo.
C16_Witness ==
    /\ event.op = "delete"
    /\ event.outcome = "NotFound"
    /\ DOMAIN todos = {2}

\* C17: the toggles of a todo by its owner, however their loads and commits
\* interleave, act as toggles one after the other: each successful commit
\* on the todo turns the flag the store holds over, so that after two of
\* them the flag is what it was before.
C17_NoLostUpdate ==
    [][event'.op = "toggle" =>
       \A c \in Clients :
         (/\ toggle_commit(c)
          /\ event'.outcome = "success"
          /\ todos[req[c].id].user_id = req[c].user)
         => todos'[req[c].id].completed = ~todos[req[c].id].completed]_vars

\* The step inserts one row and leaves the others as they are.
InsertsOne(t1, t2) ==
    /\ DOMAIN t1 \subseteq DOMAIN t2
    /\ Cardinality(DOMAIN t2 \ DOMAIN t1) = 1
    /\ \A i \in DOMAIN t1 : t2[i] = t1[i]

\* The step removes row id, if it is there, and leaves the others as they
\* are.
RemovesOnly(t1, t2, id) ==
    /\ DOMAIN t2 = DOMAIN t1 \ {id}
    /\ \A i \in DOMAIN t2 : t2[i] = t1[i]

\* The step changes the completed flag of row id and nothing else.
FlagsOnly(t1, t2, id) ==
    /\ DOMAIN t2 = DOMAIN t1
    /\ \A i \in DOMAIN t1 \ {id} : t2[i] = t1[i]
    /\ t2[id].content = t1[id].content
    /\ t2[id].user_id = t1[id].user_id

\* C18: a step that changes the todos table is the commit of an add, which
\* inserts one row, of a toggle, which changes the completed flag of its
\* target only, or of a delete, which removes its target only; the content
\* and the owner of a stored todo never change, and these commits leave the
\* users table as it is.
C18_Frame ==
    [][event'.op \in {"index", "toggle", "delete"} =>
       /\ users' = users
       /\ \A i \in DOMAIN todos \cap DOMAIN todos' :
            /\ todos'[i].content = todos[i].content
            /\ todos'[i].user_id = todos[i].user_id
       /\ \A c \in Clients :
            /\ (index_commit(c) /\ event'.outcome = "success")
                 => InsertsOne(todos, todos')
            /\ (toggle_commit(c) /\ event'.outcome = "success")
                 => FlagsOnly(todos, todos', req[c].id)
            /\ (delete_commit(c) /\ event'.outcome = "success")
                 => RemovesOnly(todos, todos', req[c].id)
       /\ todos' # todos => event'.resp.code = 302]_vars
    /\ [][event'.op \notin {"index", "toggle", "delete"} => todos' = todos]_vars

\* A delete has just succeeded, and the store still holds another todo, of
\* a user who is logged in.
C18_Witness ==
    /\ event.op = "delete"
    /\ event.outcome = "success"
    /\ Cardinality(DOMAIN todos) = 1
    /\ \E c \in Clients : \E i \in DOMAIN todos : todos[i].user_id = session[c]

\* C19: a session names one user or none; a login with the email and the
\* password of user B leaves the client's session naming B, whatever it
\* named before (nobody, B, or another user A), and the sessions of the
\* other clients as they were; and the row an add inserts is owned by the
\* user the client's session names at that moment.
C19_LoginOverrides ==
    /\ [](\A c \in Clients :
            /\ session[c] = Anonymous \/ session[c] \in DOMAIN users
            /\ req[c].pc = "index_commit" => req[c].user = session[c]
            /\ \A b \in DOMAIN users :
                 /\ login_session(c, users[b].email, PlainOf(b))[c] = b
                 /\ \A d \in Clients \ {c} :
                      login_session(c, users[b].email, PlainOf(b))[d] = session[d])
    /\ [][event'.op = "index" =>
            \A c \in Clients :
              index_commit(c)
              => \A i \in DOMAIN todos' \ DOMAIN todos :
                   todos'[i].user_id = session[c]]_vars

\* An add of a client whose session names user 2 has just been committed;
\* the store holds a todo of user 1, and no other client is logged in.
C19_Witness ==
    /\ event.op = "index"
    /\ event.resp.code = 302
    /\ event.outcome = "success"
    /\ session[event.client] = 2
    /\ \A d \in Clients \ {event.client} : session[d] = Anonymous
    /\ \E i \in DOMAIN todos : todos[i].user_id = 1
    /\ \E i \in DOMAIN todos : todos[i].user_id = 2

\* C20: no step changes or removes a row of users; a step that changes the
\* users table is the successful commit of a register request and adds one
\* row, with the email and the hash of that request; and no register step
\* changes a session or the todos.
C20_UsersOnlyCreated ==
    /\ [][\A u \in DOMAIN users :
             u \in DOMAIN users' /\ users'[u] = users[u]]_vars
    /\ [][users' # users =>
            /\ event'.op = "register"
            /\ event'.outcome = "success"
            /\ req[event'.client].pc = "register_commit"
            /\ \E u \in DOMAIN users' \ DOMAIN users :
                 /\ DOMAIN users' = DOMAIN users \cup {u}
                 /\ users'[u] = [email |-> req[event'.client].email,
                                 password |-> req[event'.client].password]]_vars
    /\ [][event'.op = "register" =>
            /\ UNCHANGED <<session, todos>>
            /\ event'.outcome = "success" /\ event'.resp.code = 302
                 => users' # users]_vars

\* A second user has just been registered by a client that is not logged
\* in, while another client is.
C20_Witness ==
    /\ event.op = "register"
    /\ event.outcome = "success"
    /\ event.resp.code = 302
    /\ Cardinality(DOMAIN users) = 2
    /\ session[event.client] = Anonymous
    /\ \E d \in Clients : session[d] \in DOMAIN users

====
